---- MODULE Spec2Model ----
(***************************************************************************)
(* The per-item operation dispatcher of the Soroswap node:                 *)
(* Soroswap.execute in src/nodes/Soroswap/Soroswap.node.ts.                *)
(*                                                                         *)
(* Strings that the code only passes through are TLA+ strings.  Strings    *)
(* that the code converts (BigInt(...), toLowerCase(), split/trim) are     *)
(* sequences of one-character strings, so that the conversion is computed  *)
(* character by character.  Item indices are 0-based as in the code.       *)
(***************************************************************************)
EXTENDS Integers, Sequences, FiniteSets, TLC

VARIABLES
    items,           \* this.getInputData(): one parameter bag per item
    continueOnFail,  \* what this.continueOnFail() answers during the run
    credentialsOk,   \* whether this.getCredentials('soroswapApi') resolves
    pc,              \* "start" | "loop" | "awaiting" | "returned" | "thrown"
    itemIndex,       \* the loop variable of execute
    returnData,      \* the accumulated INodeExecutionData records
    pending,         \* <<call>> while a remote call is awaited, else <<>>
    calls,           \* every remote call issued so far, in order
    reads,           \* every getNodeParameter(name, index) so far, in order
    credResolutions, \* how many times getCredentials was called
    output,          \* <<returnData>> once execute has returned, else <<>>
    thrown           \* <<error>> once execute has rejected, else <<>>

vars == <<items, continueOnFail, credentialsOk, pc, itemIndex, returnData,
          pending, calls, reads, credResolutions, output, thrown>>

(***************************************************************************)
(* Bounds of the model.                                                    *)
(***************************************************************************)
MaxItems == 3   \* longest input sequence of a run under Spec
MaxLen == 3     \* longest raw integer string drawn under SpecParams

Range(s) == {s[k] : k \in 1..Len(s)}

(***************************************************************************)
(* Character-level strings.                                                *)
(***************************************************************************)
Str_0x10 == <<"0", "x", "1", "0">>
Str_abc == <<"a", "b", "c">>
Str_123 == <<"1", "2", "3">>
Str_empty == <<>>

SOROSWAP == <<"S", "O", "R", "O", "S", "W", "A", "P">>
PHOENIX == <<"P", "H", "O", "E", "N", "I", "X">>
AQUA == <<"A", "Q", "U", "A">>
SDEX == <<"S", "D", "E", "X">>
COMET == <<"C", "o", "m", "e", "t">>
soroswap == <<"s", "o", "r", "o", "s", "w", "a", "p">>
phoenix == <<"p", "h", "o", "e", "n", "i", "x">>
aqua == <<"a", "q", "u", "a">>
sdex == <<"s", "d", "e", "x">>

UpperCaseLetters ==
    <<"A", "B", "C", "D", "E", "F", "G", "H", "I", "J", "K", "L", "M",
      "N", "O", "P", "Q", "R", "S", "T", "U", "V", "W", "X", "Y", "Z">>
LowerCaseLetters ==
    <<"a", "b", "c", "d", "e", "f", "g", "h", "i", "j", "k", "l", "m",
      "n", "o", "p", "q", "r", "s", "t", "u", "v", "w", "x", "y", "z">>

\* String.prototype.toLowerCase, one character
LowerChar(c) ==
    IF \E k \in 1..Len(UpperCaseLetters) : UpperCaseLetters[k] = c
    THEN LowerCaseLetters[CHOOSE k \in 1..Len(UpperCaseLetters) : UpperCaseLetters[k] = c]
    ELSE c

\* p.toLowerCase()
toLowerCase(p) == [k \in 1..Len(p) |-> LowerChar(p[k])]

WhiteSpace == {" "}

RECURSIVE TrimStart(_)
TrimStart(s) ==
    IF s # <<>> /\ Head(s) \in WhiteSpace THEN TrimStart(Tail(s)) ELSE s

RECURSIVE TrimEnd(_)
TrimEnd(s) ==
    IF s # <<>> /\ s[Len(s)] \in WhiteSpace
    THEN TrimEnd(SubSeq(s, 1, Len(s) - 1))
    ELSE s

\* String.prototype.trim
trim(s) == TrimEnd(TrimStart(s))

\* String.prototype.split(','): the segments between the commas
RECURSIVE split(_)
split(s) ==
    IF \E k \in 1..Len(s) : s[k] = ","
    THEN LET k == CHOOSE j \in 1..Len(s) :
                      s[j] = "," /\ \A h \in 1..(j - 1) : s[h] # ","
         IN <<SubSeq(s, 1, k - 1)>> \o split(SubSeq(s, k + 1, Len(s)))
    ELSE <<s>>

(***************************************************************************)
(* BigInt(string): StringToBigInt of the language.  The argument is        *)
(* trimmed; the empty string is 0n; a decimal literal may carry a sign; a  *)
(* 0x, 0o or 0b prefix selects the radix and takes no sign; anything else  *)
(* throws a SyntaxError.                                                    *)
(***************************************************************************)
DigitChars ==
    <<"0", "1", "2", "3", "4", "5", "6", "7", "8", "9",
      "a", "b", "c", "d", "e", "f">>

DigitValue(c) ==
    LET l == LowerChar(c)
    IN IF \E k \in 1..Len(DigitChars) : DigitChars[k] = l
       THEN (CHOOSE k \in 1..Len(DigitChars) : DigitChars[k] = l) - 1
       ELSE 16

AllDigits(s, radix) == s # <<>> /\ \A k \in 1..Len(s) : DigitValue(s[k]) < radix

RECURSIVE DigitsValue(_, _)
DigitsValue(s, radix) ==
    IF s = <<>>
    THEN 0
    ELSE DigitsValue(SubSeq(s, 1, Len(s) - 1), radix) * radix + DigitValue(s[Len(s)])

PrefixRadix(s) ==
    IF Len(s) >= 2 /\ s[1] = "0"
    THEN CASE LowerChar(s[2]) = "x" -> 16
           [] LowerChar(s[2]) = "o" -> 8
           [] LowerChar(s[2]) = "b" -> 2
           [] OTHER -> 0
    ELSE 0

StringToBigInt(raw) ==
    LET s == trim(raw)
        radix == PrefixRadix(s)
        body == SubSeq(s, 3, Len(s))
        unsigned == IF s # <<>> /\ Head(s) \in {"+", "-"} THEN Tail(s) ELSE s
        sign == IF s # <<>> /\ Head(s) = "-" THEN -1 ELSE 1
    IN IF s = <<>>
       THEN [ok |-> TRUE, value |-> 0]
       ELSE IF radix # 0
       THEN IF AllDigits(body, radix)
            THEN [ok |-> TRUE, value |-> DigitsValue(body, radix)]
            ELSE [ok |-> FALSE, value |-> 0]
       ELSE IF AllDigits(unsigned, 10)
       THEN [ok |-> TRUE, value |-> sign * DigitsValue(unsigned, 10)]
       ELSE [ok |-> FALSE, value |-> 0]

\* BigInt(amount)
BigInt(raw) == StringToBigInt(raw)

\* The SyntaxError BigInt throws: "Cannot convert <raw> to a BigInt".  A message
\* is the sequence of its words; the raw value contributes its characters.
SyntaxError(raw) ==
    [name |-> "SyntaxError",
     message |-> <<"Cannot", "convert">> \o raw \o <<"to", "a", "BigInt">>]

(***************************************************************************)
(* Values of the SDK's enums and JavaScript's undefined.                   *)
(***************************************************************************)
Undefined == [undefined |-> TRUE]

EnumMember(enum, key) == [enum |-> enum, member |-> key]

\* SupportedNetworks.MAINNET, SupportedNetworks.TESTNET
SupportedNetworks(key) == EnumMember("SupportedNetworks", key)

\* TradeType.EXACT_IN, TradeType.EXACT_OUT
TradeType(key) == EnumMember("TradeType", key)

\* SupportedProtocols[p as keyof typeof SupportedProtocols]: the member the key
\* names, undefined for a key the enum does not have
SupportedProtocols(p) ==
    CASE p = SOROSWAP -> EnumMember("SupportedProtocols", "SOROSWAP")
      [] p = PHOENIX -> EnumMember("SupportedProtocols", "PHOENIX")
      [] p = AQUA -> EnumMember("SupportedProtocols", "AQUA")
      [] p = SDEX -> EnumMember("SupportedProtocols", "SDEX")
      [] OTHER -> Undefined

AssetListNames == {"SOROSWAP", "STELLAR_EXPERT", "LOBSTR", "AQUA"}

\* SupportedAssetLists[assetListName as keyof typeof SupportedAssetLists]
SupportedAssetLists(key) ==
    IF key \in AssetListNames THEN EnumMember("SupportedAssetLists", key) ELSE Undefined

\* x || undefined, for a string x
OrUndefined(x) == IF x = "" THEN Undefined ELSE x

(***************************************************************************)
(* The node's parameters and their schema defaults (description.properties)*)
(***************************************************************************)
DefaultParameters ==
    [operation |-> "getProtocols",
     network |-> "MAINNET",
     assetIn |-> "",
     assetOut |-> "",
     amount |-> Str_empty,
     tradeType |-> "EXACT_IN",
     protocols |-> <<SOROSWAP>>,
     quote |-> "{}",
     from |-> "",
     to |-> "",
     xdr |-> "",
     launchtube |-> FALSE,
     assetA |-> "",
     assetB |-> "",
     amountA |-> Str_empty,
     amountB |-> Str_empty,
     liquidity |-> Str_empty,
     address |-> "",
     assetListName |-> "",
     assets |-> Str_empty,
     contractName |-> "factory"]

\* this.getNodeParameter(name, itemIndex), on the item's parameter bag
getNodeParameter(item, name) == item[name]

(***************************************************************************)
(* One case of the switch: the parameters it reads, in order, and then     *)
(* either the remote call it makes or the error thrown before the call.    *)
(***************************************************************************)
Invoke(params, method, args) ==
    [params |-> params, threw |-> FALSE, method |-> method, args |-> args]

Throw(params, error) ==
    [params |-> params, threw |-> TRUE, error |-> error]

\* const network = networkParam === 'MAINNET' ? MAINNET : TESTNET
ResolveNetwork(networkParam) ==
    IF networkParam = "MAINNET"
    THEN SupportedNetworks("MAINNET")
    ELSE SupportedNetworks("TESTNET")

\* const tradeType = tradeTypeParam === 'EXACT_IN' ? EXACT_IN : EXACT_OUT
ResolveTradeType(tradeTypeParam) ==
    IF tradeTypeParam = "EXACT_IN" THEN TradeType("EXACT_IN") ELSE TradeType("EXACT_OUT")

\* protocolsParam.map(p => SupportedProtocols[p])
QuoteProtocols(protocolsParam) ==
    [k \in 1..Len(protocolsParam) |-> SupportedProtocols(protocolsParam[k])]

\* PoolProtocols without the toLowerCase() call
PoolProtocolsAsSelected(protocolsParam) == protocolsParam

\* poolProtocolsParam.map(p => p.toLowerCase())
PoolProtocols(protocolsParam) ==
    [k \in 1..Len(protocolsParam) |-> toLowerCase(protocolsParam[k])]

CaseGetProtocols(item, network) ==
    Invoke(<<>>, "getProtocols", [network |-> network])

CaseQuote(item, network) ==
    LET assetIn == getNodeParameter(item, "assetIn")
        assetOut == getNodeParameter(item, "assetOut")
        amount == getNodeParameter(item, "amount")
        tradeType == ResolveTradeType(getNodeParameter(item, "tradeType"))
        protocols == QuoteProtocols(getNodeParameter(item, "protocols"))
        params == <<"assetIn", "assetOut", "amount", "tradeType", "protocols">>
    IN IF BigInt(amount).ok
       THEN Invoke(params, "quote",
                   [assetIn |-> assetIn, assetOut |-> assetOut,
                    amount |-> BigInt(amount).value, tradeType |-> tradeType,
                    protocols |-> protocols, network |-> network])
       ELSE Throw(params, SyntaxError(amount))

CaseBuild(item, network) ==
    LET quote == getNodeParameter(item, "quote")
        from == getNodeParameter(item, "from")
        to == getNodeParameter(item, "to")
    IN Invoke(<<"quote", "from", "to">>, "build",
              [quote |-> quote, from |-> OrUndefined(from), to |-> OrUndefined(to),
               network |-> network])

CaseSend(item, network) ==
    LET xdr == getNodeParameter(item, "xdr")
        launchtube == getNodeParameter(item, "launchtube")
    IN Invoke(<<"xdr", "launchtube">>, "send",
              [xdr |-> xdr, launchtube |-> launchtube, network |-> network])

CaseGetPools(item, network) ==
    LET poolProtocols == PoolProtocols(getNodeParameter(item, "protocols"))
    IN Invoke(<<"protocols">>, "getPools",
              [network |-> network, protocols |-> poolProtocols])

CaseGetPoolByTokens(item, network) ==
    LET assetA == getNodeParameter(item, "assetA")
        assetB == getNodeParameter(item, "assetB")
        poolTokenProtocols == PoolProtocols(getNodeParameter(item, "protocols"))
    IN Invoke(<<"assetA", "assetB", "protocols">>, "getPoolByTokens",
              [assetA |-> assetA, assetB |-> assetB, network |-> network,
               protocols |-> poolTokenProtocols])

CaseAddLiquidity(item, network) ==
    LET addAssetA == getNodeParameter(item, "assetA")
        addAssetB == getNodeParameter(item, "assetB")
        amountA == getNodeParameter(item, "amountA")
        amountB == getNodeParameter(item, "amountB")
        addTo == getNodeParameter(item, "to")
        params == <<"assetA", "assetB", "amountA", "amountB", "to">>
    IN IF ~BigInt(amountA).ok
       THEN Throw(params, SyntaxError(amountA))
       ELSE IF ~BigInt(amountB).ok
       THEN Throw(params, SyntaxError(amountB))
       ELSE Invoke(params, "addLiquidity",
                   [assetA |-> addAssetA, assetB |-> addAssetB,
                    amountA |-> BigInt(amountA).value,
                    amountB |-> BigInt(amountB).value,
                    to |-> addTo, network |-> network])

CaseRemoveLiquidity(item, network) ==
    LET removeAssetA == getNodeParameter(item, "assetA")
        removeAssetB == getNodeParameter(item, "assetB")
        liquidity == getNodeParameter(item, "liquidity")
        removeTo == getNodeParameter(item, "to")
        params == <<"assetA", "assetB", "liquidity", "to">>
    IN IF BigInt(liquidity).ok
       THEN Invoke(params, "removeLiquidity",
                   [assetA |-> removeAssetA, assetB |-> removeAssetB,
                    liquidity |-> BigInt(liquidity).value,
                    amountA |-> 0, amountB |-> 0,
                    to |-> removeTo, network |-> network])
       ELSE Throw(params, SyntaxError(liquidity))

CaseGetUserPositions(item, network) ==
    LET address == getNodeParameter(item, "address")
    IN Invoke(<<"address">>, "getUserPositions",
              [address |-> address, network |-> network])

CaseGetAssetList(item, network) ==
    LET assetListName == getNodeParameter(item, "assetListName")
        assetListValue ==
            IF assetListName # "" THEN SupportedAssetLists(assetListName) ELSE Undefined
    IN Invoke(<<"assetListName">>, "getAssetList", [assetList |-> assetListValue])

CaseGetPrice(item, network) ==
    LET assetsParam == getNodeParameter(item, "assets")
        parts == split(assetsParam)
        assetsList == [k \in 1..Len(parts) |-> trim(parts[k])]
    IN Invoke(<<"assets">>, "getPrice",
              [assets |-> IF Len(assetsList) = 1 THEN assetsList[1] ELSE assetsList,
               single |-> Len(assetsList) = 1,
               network |-> network])

CaseGetContractAddress(item, network) ==
    LET contractName == getNodeParameter(item, "contractName")
    IN Invoke(<<"contractName">>, "getContractAddress",
              [network |-> network, contractName |-> contractName])

\* default: throw new NodeOperationError(node, `Unknown operation: ${operation}`, {itemIndex})
CaseDefault(operation, index) ==
    Throw(<<>>, [name |-> "NodeOperationError",
                 message |-> <<"Unknown", "operation:", operation>>,
                 itemIndex |-> index])

\* The try block of one iteration up to the await (or the throw): reads
\* operation and network, then runs the case the operation selects.
TryBlock(item, index) ==
    LET operation == getNodeParameter(item, "operation")
        network == ResolveNetwork(getNodeParameter(item, "network"))
        case ==
            CASE operation = "getProtocols" -> CaseGetProtocols(item, network)
              [] operation = "quote" -> CaseQuote(item, network)
              [] operation = "build" -> CaseBuild(item, network)
              [] operation = "send" -> CaseSend(item, network)
              [] operation = "getPools" -> CaseGetPools(item, network)
              [] operation = "getPoolByTokens" -> CaseGetPoolByTokens(item, network)
              [] operation = "addLiquidity" -> CaseAddLiquidity(item, network)
              [] operation = "removeLiquidity" -> CaseRemoveLiquidity(item, network)
              [] operation = "getUserPositions" -> CaseGetUserPositions(item, network)
              [] operation = "getAssetList" -> CaseGetAssetList(item, network)
              [] operation = "getPrice" -> CaseGetPrice(item, network)
              [] operation = "getContractAddress" -> CaseGetContractAddress(item, network)
              [] OTHER -> CaseDefault(operation, index)
    IN [case EXCEPT !.params = <<"operation", "network">> \o case.params]

\* The getNodeParameter calls of one iteration, as (name, itemIndex) pairs
ReadsOf(try, index) == [k \in 1..Len(try.params) |-> <<try.params[k], index>>]

(***************************************************************************)
(* The records execute pushes and the errors it throws.                    *)
(***************************************************************************)
\* The value a resolved remote call yields: opaque, told apart by its call only
RemoteResult(call) == [payload |-> call.method]

\* The error a rejected remote call yields
RemoteError(call) == [name |-> "Error", message |-> <<"remote", "call", "failed">>]

\* The error a failed getCredentials yields
CredentialsError == [name |-> "Error", message |-> <<"credentials", "not", "set">>]

\* returnData.push({ json: result, pairedItem: itemIndex })
SuccessRecord(result, index) == [json |-> result, pairedItem |-> index]

\* FailureRecord paired to the first item instead of the failing one
FailureRecordUnpaired(error, index) ==
    [json |-> [error |-> error.message], error |-> error, pairedItem |-> 0]

\* returnData.push({ json: { error: error.message }, error, pairedItem: itemIndex })
FailureRecord(error, index) ==
    [json |-> [error |-> error.message], error |-> error, pairedItem |-> index]

\* new NodeOperationError(this.getNode(), error, { itemIndex })
NodeOperationError(error, index) ==
    [name |-> "NodeOperationError", message |-> error.message, itemIndex |-> index]

IsFailure(record) == "error" \in DOMAIN record

(***************************************************************************)
(* Inputs.                                                                 *)
(***************************************************************************)
Item(operation) == [DefaultParameters EXCEPT !.operation = operation]

\* The items a run under Spec draws from: read-only and state-changing
\* operations, a malformed integer and an unknown operation.  (SpecParams
\* ranges over every operation and its parameters.)
RunItems ==
    { Item("getProtocols"),
      [Item("quote") EXCEPT !.amount = Str_123],
      [Item("quote") EXCEPT !.amount = Str_abc],
      Item("build"),
      [Item("send") EXCEPT !.xdr = "AAAA", !.launchtube = TRUE],
      [Item("addLiquidity") EXCEPT !.amountA = Str_123, !.amountB = Str_123],
      [Item("removeLiquidity") EXCEPT !.liquidity = Str_123],
      Item("doesNotExist") }

RECURSIVE SeqsUpTo(_, _)
SeqsUpTo(S, n) ==
    IF n = 0
    THEN {<<>>}
    ELSE LET shorter == SeqsUpTo(S, n - 1)
         IN shorter \cup {Append(s, x) : s \in shorter, x \in S}

\* Selections of a multiOptions field: no value twice
NoRepeat(s) == \A j, k \in 1..Len(s) : j # k => s[j] # s[k]

Alphabet == {"0", "1", "a", "x", " ", "-"}

RawIntegers == SeqsUpTo(Alphabet, MaxLen) \cup {Str_0x10, Str_abc, Str_123}

ProtocolOptions == {SOROSWAP, PHOENIX, AQUA, SDEX}

ProtocolSelections ==
    {s \in SeqsUpTo(ProtocolOptions, Cardinality(ProtocolOptions)) : NoRepeat(s)}
        \cup {<<COMET>>, <<AQUA, COMET>>}

\* The items a run under SpecParams draws from: one operation with one
\* parameter ranging over its raw values.
ParamItems ==
    {[Item("quote") EXCEPT !.amount = s] : s \in RawIntegers}
        \cup {[Item("addLiquidity") EXCEPT !.amountA = s, !.amountB = Str_123] :
                 s \in RawIntegers}
        \cup {[Item("addLiquidity") EXCEPT !.amountA = Str_123, !.amountB = s] :
                 s \in RawIntegers}
        \cup {[Item("removeLiquidity") EXCEPT !.liquidity = s] : s \in RawIntegers}
        \cup {[Item(op) EXCEPT !.protocols = sel, !.amount = Str_123] :
                 op \in {"quote", "getPools", "getPoolByTokens"},
                 sel \in ProtocolSelections}
        \cup {[Item(op) EXCEPT !.network = n] :
                 op \in {"getProtocols", "build", "send", "getUserPositions",
                         "doesNotExist"},
                 n \in {"MAINNET", "TESTNET", "FUTURENET"}}
        \cup {[Item("quote") EXCEPT !.tradeType = tt, !.amount = Str_123] :
                 tt \in {"EXACT_IN", "EXACT_OUT", "EXACT"}}
        \cup {[Item("getAssetList") EXCEPT !.assetListName = n] :
                 n \in AssetListNames \cup {"", "UNKNOWN"}}
        \cup {[Item("getContractAddress") EXCEPT !.contractName = n] :
                 n \in {"factory", "router", "aggregator", "pair"}}
        \cup {[Item("getPrice") EXCEPT !.assets = a] :
                 a \in {<<"A">>, <<"A", ",", " ", "B", " ", ",", "C">>, <<>>}}

(***************************************************************************)
(* The state machine of execute.                                           *)
(***************************************************************************)
InitRun ==
    /\ pc = "start"
    /\ itemIndex = 0
    /\ returnData = <<>>
    /\ pending = <<>>
    /\ calls = <<>>
    /\ reads = <<>>
    /\ credResolutions = 0
    /\ output = <<>>
    /\ thrown = <<>>
    /\ continueOnFail \in BOOLEAN
    /\ credentialsOk \in BOOLEAN

Init ==
    /\ items \in SeqsUpTo(RunItems, MaxItems)
    /\ InitRun

InitParams ==
    /\ \E item \in ParamItems : items = <<item>>
    /\ InitRun

\* const credentials = await this.getCredentials('soroswapApi'); new SoroswapSDK
ResolveCredentials ==
    /\ pc = "start"
    /\ credentialsOk
    /\ credResolutions' = credResolutions + 1
    /\ pc' = "loop"
    /\ UNCHANGED <<items, continueOnFail, credentialsOk, itemIndex, returnData,
                   pending, calls, reads, output, thrown>>

\* RejectCredentials as if getCredentials were awaited inside a try that honours
\* continueOnFail: the run goes on into the loop
RejectCredentialsCaught ==
    /\ pc = "start"
    /\ ~credentialsOk
    /\ credResolutions' = credResolutions + 1
    /\ IF continueOnFail
       THEN pc' = "loop" /\ UNCHANGED thrown
       ELSE pc' = "thrown" /\ thrown' = <<CredentialsError>>
    /\ UNCHANGED <<items, continueOnFail, credentialsOk, itemIndex, returnData,
                   pending, calls, reads, output>>

\* getCredentials rejects: outside the try, so execute rejects with it
RejectCredentials ==
    /\ pc = "start"
    /\ ~credentialsOk
    /\ credResolutions' = credResolutions + 1
    /\ thrown' = <<CredentialsError>>
    /\ pc' = "thrown"
    /\ UNCHANGED <<items, continueOnFail, credentialsOk, itemIndex, returnData,
                   pending, calls, reads, output>>

\* Catch that never consults continueOnFail and always records the failure
CatchIgnoringFlag(error) ==
    /\ returnData' = Append(returnData, FailureRecord(error, itemIndex))
    /\ itemIndex' = itemIndex + 1
    /\ pc' = "loop"
    /\ UNCHANGED <<output, thrown>>

\* Catch that always rethrows
CatchAlwaysThrow(error) ==
    /\ thrown' = <<NodeOperationError(error, itemIndex)>>
    /\ pc' = "thrown"
    /\ UNCHANGED <<returnData, itemIndex, output>>

\* Catch that hands the records gathered so far to the caller when it rethrows
CatchDeliveringPartial(error) ==
    IF continueOnFail
    THEN /\ returnData' = Append(returnData, FailureRecord(error, itemIndex))
         /\ itemIndex' = itemIndex + 1
         /\ pc' = "loop"
         /\ UNCHANGED <<output, thrown>>
    ELSE /\ thrown' = <<NodeOperationError(error, itemIndex)>>
         /\ output' = <<returnData>>
         /\ pc' = "thrown"
         /\ UNCHANGED <<returnData, itemIndex>>

\* catch (error) { if (this.continueOnFail()) push ... else throw ... }
Catch(error) ==
    IF continueOnFail
    THEN /\ returnData' = Append(returnData, FailureRecord(error, itemIndex))
         /\ itemIndex' = itemIndex + 1
         /\ pc' = "loop"
         /\ UNCHANGED <<output, thrown>>
    ELSE /\ thrown' = <<NodeOperationError(error, itemIndex)>>
         /\ pc' = "thrown"
         /\ UNCHANGED <<returnData, itemIndex, output>>

\* One iteration up to its await: the parameters are read and coerced and the
\* remote call is issued.
InvokeRemote ==
    /\ pc = "loop"
    /\ itemIndex < Len(items)
    /\ LET try == TryBlock(items[itemIndex + 1], itemIndex)
       IN /\ ~try.threw
          /\ reads' = reads \o ReadsOf(try, itemIndex)
          /\ pending' = <<[method |-> try.method, args |-> try.args,
                           itemIndex |-> itemIndex]>>
          /\ calls' = calls \o pending'
    /\ pc' = "awaiting"
    /\ UNCHANGED <<items, continueOnFail, credentialsOk, itemIndex, returnData,
                   credResolutions, output, thrown>>

\* One iteration that throws before any await: BigInt's SyntaxError or the
\* default case's NodeOperationError, caught by the catch block.
ThrowBeforeCall ==
    /\ pc = "loop"
    /\ itemIndex < Len(items)
    /\ LET try == TryBlock(items[itemIndex + 1], itemIndex)
       IN /\ try.threw
          /\ reads' = reads \o ReadsOf(try, itemIndex)
          /\ Catch(try.error)
    /\ UNCHANGED <<items, continueOnFail, credentialsOk, pending, calls,
                   credResolutions>>

\* The awaited call resolves: returnData.push({ json: result, pairedItem })
RemoteResolve ==
    /\ pc = "awaiting"
    /\ returnData' = Append(returnData,
                            SuccessRecord(RemoteResult(pending[1]), itemIndex))
    /\ itemIndex' = itemIndex + 1
    /\ pending' = <<>>
    /\ pc' = "loop"
    /\ UNCHANGED <<items, continueOnFail, credentialsOk, calls, reads,
                   credResolutions, output, thrown>>

\* RemoteReject that issues the rejected call once more before giving up
RemoteRejectRetry ==
    /\ pc = "awaiting"
    /\ IF Len(calls) = 0 \/ Len(calls) = 1 \/ calls[Len(calls)] # calls[Len(calls) - 1]
       THEN /\ calls' = Append(calls, pending[1])
            /\ UNCHANGED <<pending, pc, itemIndex, returnData, output, thrown>>
       ELSE /\ pending' = <<>>
            /\ Catch(RemoteError(pending[1]))
            /\ UNCHANGED calls
    /\ UNCHANGED <<items, continueOnFail, credentialsOk, reads, credResolutions>>

\* The awaited call rejects: the catch block runs
RemoteReject ==
    /\ pc = "awaiting"
    /\ pending' = <<>>
    /\ Catch(RemoteError(pending[1]))
    /\ UNCHANGED <<items, continueOnFail, credentialsOk, calls, reads,
                   credResolutions>>

\* return [returnData]
Return ==
    /\ pc = "loop"
    /\ itemIndex >= Len(items)
    /\ output' = <<returnData>>
    /\ pc' = "returned"
    /\ UNCHANGED <<items, continueOnFail, credentialsOk, itemIndex, returnData,
                   pending, calls, reads, credResolutions, thrown>>

Next ==
    \/ ResolveCredentials
    \/ RejectCredentials
    \/ InvokeRemote
    \/ ThrowBeforeCall
    \/ RemoteResolve
    \/ RemoteReject
    \/ Return

Spec == Init /\ [][Next]_vars

SpecParams == InitParams /\ [][Next]_vars

(***************************************************************************)
(* Properties.                                                             *)
(***************************************************************************)
CallsFor(index) == {k \in 1..Len(calls) : calls[k].itemIndex = index}

ReadsFor(index) == {k \in 1..Len(reads) : reads[k][2] = index}

\* A step of the catch block: a throw before the call, or a rejected call
FailureStep == ThrowBeforeCall \/ RemoteReject

\* Once execute has rejected it takes no further step
ThrownIsFinal == pc = "thrown" => UNCHANGED vars

\* Records are appended one at a time and never changed afterwards
AppendOnly ==
    /\ Len(returnData') \in {Len(returnData), Len(returnData) + 1}
    /\ \A k \in 1..Len(returnData) : returnData'[k] = returnData[k]
    /\ output # <<>> => output' = output

\* One record per item dealt with so far, each paired to its position
PairedInOrder ==
    /\ Len(returnData) = itemIndex
    /\ Len(returnData) <= Len(items)
    /\ \A k \in 1..Len(returnData) : returnData[k].pairedItem = k - 1

(* C1, as stated: for every input sequence of length N and every combination
   of per-item outcomes, once the run is over the output sequence has length
   N and the record at position i carries pairedItem = i. *)
C1_OutputLengthWhateverFails ==
    (pc \in {"returned", "thrown"} /\ credentialsOk) =>
        /\ output # <<>>
        /\ Len(output[1]) = Len(items)
        /\ \A k \in 1..Len(output[1]) : output[1][k].pairedItem = k - 1

(* C1, amended: at every point of a run there is exactly one record per item
   dealt with so far, the record at position i carries pairedItem = i, and a
   record once appended never changes; whenever execute returns an output
   sequence (continue-on-failure set, or no item failed) that sequence is
   returnData and has length N. *)
C1_PairingOfReturnedOutput ==
    /\ [](PairedInOrder
            /\ (pc = "returned" =>
                    /\ output = <<returnData>>
                    /\ Len(returnData) = Len(items)))
    /\ [][AppendOnly]_vars

C1_Witness ==
    /\ pc = "returned"
    /\ continueOnFail
    /\ Len(items) = 3
    /\ ~IsFailure(output[1][1])
    /\ IsFailure(output[1][2])
    /\ ~IsFailure(output[1][3])

(* C2: with continue-on-failure unset, a failure step at index k rejects the
   run with an error carrying item index k; no Failure record is ever
   produced; in the rejected state no parameter of an item beyond k was read,
   no remote call of an item beyond k was issued and no record exists for k
   or a later item; and the rejected run takes no further step. *)
C2_FailFast ==
    /\ [](~continueOnFail =>
            /\ \A k \in 1..Len(returnData) : ~IsFailure(returnData[k])
            /\ (pc = "thrown" /\ credentialsOk) =>
                   /\ thrown[1].itemIndex = itemIndex
                   /\ Len(returnData) = itemIndex
                   /\ \A k \in 1..Len(reads) : reads[k][2] <= itemIndex
                   /\ \A k \in 1..Len(calls) : calls[k].itemIndex <= itemIndex)
    /\ [][(~continueOnFail /\ FailureStep) =>
              /\ pc' = "thrown"
              /\ thrown'[1].itemIndex = itemIndex
              /\ thrown'[1].name = "NodeOperationError"]_vars
    /\ [][ThrownIsFinal]_vars

C2_Witness ==
    /\ ~continueOnFail
    /\ credentialsOk
    /\ pc = "thrown"
    /\ Len(items) = 3
    /\ items[2].operation = "quote" /\ items[2].amount = Str_abc
    /\ items[3].operation = "getProtocols"
    /\ thrown[1].itemIndex = 1
    /\ Len(returnData) = 1
    /\ Len(calls) = 1
    /\ ReadsFor(2) = {}

\* What the record of the item at position k (1-based) must be, from that item
\* and the outcome of its own remote call alone
RecordOfItemAlone(k) ==
    LET r == returnData[k]
        try == TryBlock(items[k], k - 1)
    IN /\ r.pairedItem = k - 1
       /\ IsFailure(r) => r.json = [error |-> r.error.message]
       /\ IF try.threw
          THEN /\ IsFailure(r)
               /\ r.error = try.error
               /\ CallsFor(k - 1) = {}
          ELSE /\ Cardinality(CallsFor(k - 1)) = 1
               /\ \A c \in CallsFor(k - 1) :
                      /\ calls[c].method = try.method
                      /\ calls[c].args = try.args
                      /\ IF IsFailure(r)
                         THEN r.error = RemoteError(calls[c])
                         ELSE r.json = RemoteResult(calls[c])

(* C3: with continue-on-failure set, a failure step at index i appends exactly
   one Failure record, holding the error's message and paired to i, and the
   loop goes on to item i+1; the run never rejects; and the record and the
   remote call of every item are those the item's own parameters and its own
   call's outcome determine, whatever happened to the items before it. *)
C3_FailureIsolation ==
    /\ []((continueOnFail /\ credentialsOk) =>
            /\ pc # "thrown"
            /\ \A k \in 1..Len(returnData) : RecordOfItemAlone(k)
            /\ pc = "returned" => Len(returnData) = Len(items))
    /\ [][(continueOnFail /\ FailureStep) =>
              /\ pc' = "loop"
              /\ itemIndex' = itemIndex + 1
              /\ Len(returnData') = Len(returnData) + 1
              /\ IsFailure(returnData'[Len(returnData')])
              /\ returnData'[Len(returnData')].pairedItem = itemIndex]_vars

C3_Witness ==
    /\ continueOnFail
    /\ pc = "returned"
    /\ Len(items) = 2
    /\ items[1].operation = "doesNotExist"
    /\ IsFailure(returnData[1])
    /\ returnData[1].json.error = <<"Unknown", "operation:", "doesNotExist">>
    /\ items[2].operation = "getProtocols"
    /\ ~IsFailure(returnData[2])
    /\ returnData[2].pairedItem = 1

(* C4: getCredentials is called exactly once per run and before any parameter
   is read; when it fails the run rejects with the credential error whatever
   continue-on-failure says, with no parameter read, no remote call issued and
   no record produced. *)
C4_CredentialsFirstAndFatal ==
    /\ credResolutions <= 1
    /\ pc # "start" => credResolutions = 1
    /\ (reads # <<>> \/ calls # <<>> \/ returnData # <<>>) =>
           (credResolutions = 1 /\ credentialsOk)
    /\ (~credentialsOk /\ pc # "start") =>
           /\ pc = "thrown"
           /\ thrown = <<CredentialsError>>
           /\ reads = <<>>
           /\ calls = <<>>
           /\ returnData = <<>>
           /\ output = <<>>

C4_Witness ==
    /\ ~credentialsOk
    /\ continueOnFail
    /\ pc = "thrown"
    /\ Len(items) = 2
    /\ credResolutions = 1

IntegerParameters(operation) ==
    CASE operation = "quote" -> {"amount"}
      [] operation = "addLiquidity" -> {"amountA", "amountB"}
      [] operation = "removeLiquidity" -> {"liquidity"}
      [] OTHER -> {}

DecimalDigitChars == {"0", "1", "2", "3", "4", "5", "6", "7", "8", "9"}

\* A well-formed base-10 integer string: one or more decimal digits, with an
\* optional leading minus sign
WellFormedDecimal(raw) ==
    LET digits == IF raw # <<>> /\ Head(raw) = "-" THEN Tail(raw) ELSE raw
    IN digits # <<>> /\ \A k \in 1..Len(digits) : digits[k] \in DecimalDigitChars

RECURSIVE DecimalValue(_)
DecimalValue(raw) ==
    IF raw = <<>>
    THEN 0
    ELSE IF Head(raw) = "-"
    THEN 0 - DecimalValue(Tail(raw))
    ELSE DecimalValue(SubSeq(raw, 1, Len(raw) - 1)) * 10
             + (CHOOSE d \in 0..9 :
                    <<"0", "1", "2", "3", "4", "5", "6", "7", "8", "9">>[d + 1]
                        = raw[Len(raw)])

\* The input classes C5 names as malformed: the empty string, whitespace only,
\* a hex prefix, a character that is no digit
NamedMalformed(raw) ==
    \/ raw = <<>>
    \/ \A k \in 1..Len(raw) : raw[k] \in WhiteSpace
    \/ (Len(raw) >= 2 /\ raw[1] = "0" /\ raw[2] = "x")
    \/ \E k \in 1..Len(raw) : raw[k] \notin DecimalDigitChars \cup {"-"}

(* C5: for every integer-typed parameter, a raw value of one of the named
   malformed classes makes the item fail with no remote call issued for it,
   and a well-formed decimal string reaches the call as the equal-valued
   integer. *)
C5_MalformedIntegerFailsItem ==
    \A k \in 1..Len(items) :
        \A name \in IntegerParameters(items[k].operation) :
            LET raw == items[k][name]
            IN /\ NamedMalformed(raw) =>
                      /\ CallsFor(k - 1) = {}
                      /\ Len(returnData) >= k => IsFailure(returnData[k])
               /\ WellFormedDecimal(raw) =>
                      \A c \in CallsFor(k - 1) :
                          calls[c].args[name] = DecimalValue(raw)

EnumOutOfSet(item) ==
    \/ item.network \notin {"MAINNET", "TESTNET"}
    \/ /\ item.operation = "quote"
       /\ item.tradeType \notin {"EXACT_IN", "EXACT_OUT"}
    \/ /\ item.operation \in {"quote", "getPools", "getPoolByTokens"}
       /\ \E k \in 1..Len(item.protocols) : item.protocols[k] \notin ProtocolOptions
    \/ /\ item.operation = "getAssetList"
       /\ item.assetListName \notin AssetListNames \cup {""}
    \/ /\ item.operation = "getContractAddress"
       /\ item.contractName \notin {"factory", "router", "aggregator"}

KnownOperations ==
    {"getProtocols", "quote", "build", "send", "getPools", "getPoolByTokens",
     "addLiquidity", "removeLiquidity", "getUserPositions", "getAssetList",
     "getPrice", "getContractAddress"}

(* C6: an item of a known operation that configures an enum-typed parameter
   (network, tradeType, an element of protocols, assetListName, contractName)
   with a value outside its closed set fails, and no remote call is issued
   for it. *)
C6_OutOfSetEnumFailsItem ==
    \A k \in 1..Len(items) :
        (items[k].operation \in KnownOperations /\ EnumOutOfSet(items[k])) =>
            /\ CallsFor(k - 1) = {}
            /\ Len(returnData) >= k => IsFailure(returnData[k])

(* C7: remote calls are issued in strictly increasing item order, so at most
   one per item and none a second time; at most one call is in flight; a call
   is issued only when no call is in flight and every earlier item has its
   record; the call in flight is the last one issued and belongs to the item
   the loop is at. *)
C7_SequentialNoRetry ==
    /\ [](/\ \A j, k \in 1..Len(calls) :
                 j < k => calls[j].itemIndex < calls[k].itemIndex
          /\ Len(pending) <= 1
          /\ (pc = "awaiting") = (pending # <<>>)
          /\ pending # <<>> =>
                 /\ pending[1] = calls[Len(calls)]
                 /\ pending[1].itemIndex = itemIndex
                 /\ Len(returnData) = itemIndex)
    /\ [][calls' # calls =>
              /\ pending = <<>>
              /\ Len(returnData) = itemIndex
              /\ Len(calls') = Len(calls) + 1
              /\ SubSeq(calls', 1, Len(calls)) = calls
              /\ calls'[Len(calls')].itemIndex = itemIndex]_vars

C7_Witness ==
    /\ continueOnFail
    /\ pc = "returned"
    /\ Len(items) = 3
    /\ Len(calls) = 3
    /\ calls[1].method = "send"
    /\ IsFailure(returnData[1])
    /\ returnData[1].error.message = <<"remote", "call", "failed">>
    /\ calls[2].method = "addLiquidity"
    /\ calls[3].method = "removeLiquidity"

\* A failure of BigInt(...), told by the error's name
IsCoercionFailure(error) == error.name = "SyntaxError"

(* C8: whenever an item fails because an integer parameter could not be
   coerced, the message of the Failure record (or of the error thrown in
   fail-fast mode) names an integer parameter of the item's operation. *)
C8_MessageNamesParameter ==
    /\ \A k \in 1..Len(returnData) :
           (IsFailure(returnData[k]) /\ IsCoercionFailure(returnData[k].error)) =>
               Range(returnData[k].json.error)
                   \cap IntegerParameters(items[k].operation) # {}
    /\ (pc = "thrown" /\ credentialsOk
            /\ TryBlock(items[itemIndex + 1], itemIndex).threw
            /\ items[itemIndex + 1].operation \in KnownOperations) =>
           Range(thrown[1].message)
               \cap IntegerParameters(items[itemIndex + 1].operation) # {}

\* The lower-case name each protocol option is transmitted as by the pool
\* operations
LowerCaseNameOf(p) ==
    CASE p = SOROSWAP -> soroswap
      [] p = PHOENIX -> phoenix
      [] p = AQUA -> aqua
      [] p = SDEX -> sdex

\* The member of the SupportedProtocols enum each protocol option names
EnumMemberOf(p) ==
    CASE p = SOROSWAP -> [enum |-> "SupportedProtocols", member |-> "SOROSWAP"]
      [] p = PHOENIX -> [enum |-> "SupportedProtocols", member |-> "PHOENIX"]
      [] p = AQUA -> [enum |-> "SupportedProtocols", member |-> "AQUA"]
      [] p = SDEX -> [enum |-> "SupportedProtocols", member |-> "SDEX"]

(* C9: for every non-empty selection of protocols from SOROSWAP, PHOENIX,
   AQUA, SDEX, a getPools or getPoolByTokens call carries the lower-cased
   names, as many as selected and in the selected order, and a quote call
   carries, in the selected order, the SupportedProtocols members the
   upper-case names select, not lower-cased names. *)
C9_ProtocolCaseDivergence ==
    \A c \in 1..Len(calls) :
        LET call == calls[c]
            selected == items[call.itemIndex + 1].protocols
        IN (selected # <<>> /\ Range(selected) \subseteq ProtocolOptions) =>
               /\ call.method \in {"getPools", "getPoolByTokens"} =>
                      /\ Len(call.args.protocols) = Len(selected)
                      /\ \A k \in 1..Len(selected) :
                             call.args.protocols[k] = LowerCaseNameOf(selected[k])
               /\ call.method = "quote" =>
                      /\ Len(call.args.protocols) = Len(selected)
                      /\ \A k \in 1..Len(selected) :
                             call.args.protocols[k] = EnumMemberOf(selected[k])

C9_Witness ==
    /\ pc = "returned"
    /\ Len(calls) = 1
    /\ calls[1].method = "getPoolByTokens"
    /\ items[1].protocols = <<SOROSWAP, AQUA>>
    /\ calls[1].args.protocols = <<soroswap, aqua>>

(* C10: with continue-on-failure unset, once item k has failed the caller is
   handed no output sequence, then or later; the records of items 0..k-1 are
   Success records left in returnData, and the remote call of each of those
   items was issued and had resolved before the failure. *)
C10_NoPartialOutput ==
    /\ []((pc = "thrown") =>
            /\ output = <<>>
            /\ (~continueOnFail /\ credentialsOk) =>
                   /\ Len(returnData) = thrown[1].itemIndex
                   /\ \A k \in 1..Len(returnData) :
                          /\ ~IsFailure(returnData[k])
                          /\ CallsFor(k - 1) # {}
                   /\ pending = <<>>)
    /\ [][pc = "thrown" => (pc' = "thrown" /\ output' = <<>>)]_vars

C10_Witness ==
    /\ ~continueOnFail
    /\ credentialsOk
    /\ pc = "thrown"
    /\ thrown[1].itemIndex = 2
    /\ calls[1].method = "send"
    /\ calls[2].method = "addLiquidity"
    /\ Len(returnData) = 2
    /\ output = <<>>

====
